---- MODULE Spec2Model ----
(***************************************************************************)
(* Workflow of the competitor-analysis backend: the LangGraph StateGraph   *)
(* built by CompetitorAnalysisCoordinator (search -> analysis ->           *)
(* llm_quality -> [human_review] -> report), the background task that      *)
(* drives it, the stores it writes (analyses collection, agent_states      *)
(* collection, Redis agent-state cache, LangGraph checkpoint) and the      *)
(* quality-review decision endpoint.  One analysis request is followed     *)
(* from creation on.  The agents' LLM and search calls are abstracted to   *)
(* their effect on AgentState: the stage they set, the quality issues      *)
(* they append, and whether they end with status failed.                   *)
(***************************************************************************)
EXTENDS Integers, Sequences, FiniteSets, TLC

VARIABLES
    db,            \* analyses collection: <<>> or <<record>> of this request
    cache,         \* Redis key agent_state:<id>: <<>> or <<AgentState>>
    agent_states,  \* agent_states collection: <<>> or <<AgentState>>
    state,         \* AgentState held by the LangGraph checkpoint of the thread
    pc,            \* position of the workflow thread
    run_kind,      \* which caller invoked the graph: initial, with_state, checkpoint
    executed,      \* history: the graph nodes executed so far, in order
    last,          \* history: the last answer of the decision endpoint
    n_submitted,   \* history: number of decisions submitted
    n_accepted,    \* history: number of decisions accepted (HTTP 200)
    abort_accepted,\* history: an abort decision has been accepted
    deleted,       \* history: delete_analysis has answered 200
    progress,      \* Redis key progress:<id>: <<>> or <<progress data>>
    ws,            \* a WebSocket client of this analysis and its monitor task
    batch,         \* one run of a batched collection or processing loop
    redis          \* RedisService: the keys it has written, and the clock

vars == <<db, cache, agent_states, state, pc, run_kind, executed, last,
          n_submitted, n_accepted, abort_accepted, deleted, progress, ws,
          batch, redis>>

\* ------------------------------------------------------------------ bounds
\* most quality issues one llm_quality run reports
MaxIssues == 1
\* most decisions posted to the decision endpoint
MaxDecisions == 2
\* most writes to Redis that are followed
MaxWrites == 2
\* most competitors handed to one batched collection or processing run
MaxBatchItems == 7
\* the request's max_competitors (start_analysis accepts 1..50)
MaxCompetitors == 2
\* most competitor names one discovery returns
MaxFound == 3

\* ------------------------------------------------------------- data types
None == <<>>
Some(x) == <<x>>

Severities == {"critical", "high", "medium", "low"}
IssueTypes == {"overall_quality_low", "recommendations_quality",
               "analysis_depth", "data_gaps"}
QualityIssue == [severity : Severities, issue_type : IssueTypes]

ValidDecisions == {"proceed", "retry_search", "retry_analysis",
                   "modify_params", "abort"}
PostedDecisions == ValidDecisions \cup {"unknown_decision"}

max_retries == 2

\* AgentState(request_id, analysis_context) with every other field defaulted
InitialAgentState ==
    [status                |-> "in_progress",
     current_stage         |-> "client_onboarding",
     awaiting_human_review |-> FALSE,
     human_decision        |-> "none",
     retry_count           |-> 0,
     last_retry_agent      |-> "none",
     quality_feedback      |-> <<>>,
     retry_history         |-> <<>>,
     modified_params       |-> None,
     max_competitors       |-> MaxCompetitors,
     discovered_competitors |-> <<>>,
     completed_stages      |-> <<>>]

\* --------------------------------------------------- AgentState's methods
get_critical_quality_issues(s) ==
    SelectSeq(s.quality_feedback,
              LAMBDA i : i.severity \in {"critical", "high"})

get_all_quality_issues_for_review_no_medium(s) ==
    SelectSeq(s.quality_feedback,
              LAMBDA i : i.severity \in {"critical", "high"})

get_all_quality_issues_for_review(s) ==
    SelectSeq(s.quality_feedback,
              LAMBDA i : \/ i.severity \in {"critical", "high"}
                         \/ /\ i.severity = "medium"
                            /\ i.issue_type \in {"overall_quality_low",
                                                 "recommendations_quality",
                                                 "analysis_depth"})

has_critical_issues_needing_review(s) ==
    Len(get_all_quality_issues_for_review(s)) > 0

can_retry(s) == s.retry_count < max_retries

record_retry(s, agent_name) ==
    [s EXCEPT !.retry_count = @ + 1, !.last_retry_agent = agent_name,
              !.retry_history = Append(@, agent_name)]

complete_stage(s, stage) ==
    IF \E i \in 1..Len(s.completed_stages) : s.completed_stages[i] = stage
    THEN s
    ELSE [s EXCEPT !.completed_stages = Append(@, stage)]

add_competitor(s, competitor_name) ==
    IF \E i \in 1..Len(s.discovered_competitors) :
           s.discovered_competitors[i] = competitor_name
    THEN s
    ELSE [s EXCEPT !.discovered_competitors = Append(@, competitor_name)]

set_awaiting_human_review(s, awaiting) ==
    [s EXCEPT !.awaiting_human_review = awaiting]

set_human_decision(s, decision) ==
    [s EXCEPT !.human_decision = decision, !.awaiting_human_review = FALSE]

\* the decision's selected_issues list is taken to be empty; of the
\* analysis context's fields modified_params can name, max_competitors is kept
apply_human_decision(s) ==
    LET s1 == IF s.human_decision = "modify_params" /\ s.modified_params # None
              THEN [s EXCEPT !.max_competitors =
                                 s.modified_params[1].max_competitors]
              ELSE s
    IN  IF s1.human_decision \in {"proceed", "retry_search", "retry_analysis"}
        THEN [s1 EXCEPT !.quality_feedback = <<>>]
        ELSE s1

\* ------------------------------------------------------ the workflow graph
entry_point_analysis == "analysis"

entry_point == "search"

route_after_search_ignoring_failure(s) == "analysis"

route_after_search(s) ==
    IF s.status = "failed" THEN "END" ELSE "analysis"

route_after_analysis(s) ==
    IF s.status = "failed" THEN "END" ELSE "llm_quality"

route_after_quality(s) ==
    IF s.status = "failed" THEN "END"
    ELSE IF has_critical_issues_needing_review(s) THEN "human_review"
    ELSE "report"

\* guidance dictionaries are not modelled; the retry is recorded
apply_selected_quality_feedback(s, retry_agent) == record_retry(s, retry_agent)

\* the route key route_after_human_review returns
route_after_human_review(s) ==
    IF s.status = "failed" THEN "END"
    ELSE IF s.human_decision = "none" THEN "human_review"
    ELSE IF s.human_decision = "abort" THEN "END"
    ELSE IF s.human_decision = "retry_search" THEN "retry_search"
    ELSE IF s.human_decision = "retry_analysis" THEN "retry_analysis"
    ELSE "report"

\* the state the router leaves behind (it records the retry in place)
state_after_human_review_route(s) ==
    IF s.status = "failed" \/ s.human_decision = "none" THEN s
    ELSE IF s.human_decision = "retry_search"
         THEN apply_selected_quality_feedback(s, "search")
    ELSE IF s.human_decision = "retry_analysis"
         THEN apply_selected_quality_feedback(s, "analysis")
    ELSE s

\* add_conditional_edges("human_review", ..., {...}): no key "human_review"
human_review_path_map ==
    [report |-> "report", retry_search |-> "search",
     retry_analysis |-> "analysis", END |-> "END"]

\* position of the thread after a router chose `target`; interrupt_before
\* = ["human_review"] stops the run in front of that node
Goto(target) ==
    IF target = "END" THEN "ended"
    ELSE IF target = "human_review" THEN "interrupted"
    ELSE target

\* ------------------------------------------------------------ the stores
\* AnalysisRepository.update_analysis on status and current_stage; an
\* update of a record that does not exist changes nothing
update_analysis(d, status, stage) ==
    IF d = None THEN d
    ELSE Some([d[1] EXCEPT
                 !.status = IF status = "same" THEN @ ELSE status,
                 !.current_stage = IF stage = "same" THEN @ ELSE stage])

\* coordinator._store_human_review_data: building review_data reads
\* state.analysis_results, a field AgentState does not have; the
\* AttributeError is caught and logged before the Redis write and before
\* the update that would set the record's quality_review
store_human_review_data(d, s) == d

\* update_analysis on the record's progress
set_progress(d, p) ==
    IF d = None THEN d ELSE Some([d[1] EXCEPT !.progress = p])

\* the progress each node wrapper passes to _update_progress; the
\* human_review node passes state.progress, which llm_quality left at 100
stage_progress ==
    [search |-> 10, analysis |-> 40, llm_quality |-> 70,
     human_review |-> 100, report |-> 85]

\* RedisService.set_analysis_progress: the data put under progress:<id>
set_analysis_progress(p, status, current_stage) ==
    Some([progress |-> p, status |-> status, current_stage |-> current_stage])

\* coordinator._update_progress: what it puts under progress:<id>
progress_update(stage) ==
    set_analysis_progress(stage_progress[stage], "in_progress", stage)

\* coordinator._update_progress: stage and progress of the analyses record
update_progress(d, stage) ==
    set_progress(update_analysis(d, "same", stage), stage_progress[stage])

\* no batched run has been called yet
InitialBatch ==
    [kind |-> "none", total |-> 0, i |-> 0, pc |-> "idle", in_flight |-> {},
     finished |-> {}, failed |-> {}, slept |-> 0]

\* the keys RedisService writes for one request, by their prefixes
RedisKeys ==
    {"agent_state", "progress", "progress_update", "analysis_result",
     "human_review", "progress_message", "competitor"}

\* RedisService is not constructed yet, and Redis is empty at time 0
InitialRedis ==
    [up |-> FALSE, default_ttl |-> 0, now |-> 0, writes |-> 0,
     entries |-> [k \in RedisKeys |-> None]]

Init ==
    /\ db = None
    /\ cache = None
    /\ agent_states = None
    /\ state = InitialAgentState
    /\ pc = "none"
    /\ run_kind = "initial"
    /\ executed = <<>>
    /\ last = [decision |-> "none", code |-> 0, mark |-> 0]
    /\ n_submitted = 0
    /\ n_accepted = 0
    /\ abort_accepted = FALSE
    /\ deleted = FALSE
    /\ progress = None
    /\ ws = [connected |-> FALSE, polling |-> FALSE, last_progress |-> -1,
             last_stage |-> "", got_complete |-> FALSE]
    /\ batch = InitialBatch
    /\ redis = InitialRedis

History == <<last, n_submitted, n_accepted, abort_accepted, deleted>>

\* POST /analysis: create_analysis inserts the record with status pending
StartAnalysis ==
    /\ pc = "none"
    /\ db' = Some([status |-> "pending", current_stage |-> "none",
                    progress |-> 0,
                    quality_review |-> FALSE, review_decision |-> "none"])
    /\ pc' = "created"
    /\ UNCHANGED <<cache, agent_states, state, run_kind, executed, progress,
                   History, ws, batch, redis>>

\* analyze_competitors_with_id up to the call of ainvoke
BeginWorkflow ==
    /\ pc = "created"
    /\ db' = set_progress(update_analysis(db, "in_progress", "same"), 0)
    /\ progress' = set_analysis_progress(0, "in_progress", "search")
    /\ state' = InitialAgentState
    /\ pc' = entry_point
    /\ UNCHANGED <<cache, agent_states, run_kind, executed, History, ws,
                   batch, redis>>

\* SearchAgent.process / AnalysisAgent.process on the graph state: the
\* part the two agents share
agent_process(s, agent_name) ==
    LET is_retry == s.retry_count > 0 /\ s.last_retry_agent = agent_name
        s1 == complete_stage([s EXCEPT !.current_stage = agent_name],
                             agent_name)
    IN  IF is_retry THEN record_retry(s1, agent_name) ELSE s1

\* competitors[:max_competitors]
select_competitors_all(competitors, max_competitors) == competitors

select_competitors(competitors, max_competitors) ==
    SubSeq(competitors, 1, IF Len(competitors) < max_competitors
                           THEN Len(competitors) ELSE max_competitors)

RECURSIVE add_competitors(_, _)
add_competitors(s, names) ==
    IF names = <<>> THEN s
    ELSE add_competitors(add_competitor(s, Head(names)), Tail(names))

\* how many competitors _discover_competitors returns: none, as many as
\* the request asked for, or more
FoundCounts == {0, MaxCompetitors, MaxFound}

\* SearchAgent.process for a company comparison: `competitors` is what
\* _discover_competitors returned
search_process(s, competitors) ==
    agent_process(
        add_competitors(s, select_competitors(competitors, s.max_competitors)),
        "search")

\* _search_node, then route_after_search
SearchNode ==
    /\ pc = "search"
    /\ executed' = Append(executed, "search")
    /\ db' = update_progress(db, "search")
    /\ progress' = progress_update("search")
    /\ \/ \E k \in FoundCounts :
            LET s == search_process(state, [i \in 1..k |-> i])
            IN  /\ state' = s
                /\ cache' = Some(s)
                /\ agent_states' = Some(s)
       \/ /\ state' = [state EXCEPT !.status = "failed"]
          /\ UNCHANGED <<cache, agent_states>>
    /\ pc' = Goto(route_after_search(state'))
    /\ UNCHANGED <<run_kind, History, ws, batch, redis>>

\* _analysis_node, then route_after_analysis
AnalysisNode ==
    /\ pc = "analysis"
    /\ executed' = Append(executed, "analysis")
    /\ db' = update_progress(db, "analysis")
    /\ progress' = progress_update("analysis")
    /\ \/ LET s == agent_process(state, "analysis")
          IN  /\ state' = s
              /\ cache' = Some(s)
              /\ agent_states' = Some(s)
       \/ /\ state' = [state EXCEPT !.status = "failed"]
          /\ UNCHANGED <<cache, agent_states>>
    /\ pc' = Goto(route_after_analysis(state'))
    /\ UNCHANGED <<run_kind, History, ws, batch, redis>>

\* _llm_quality_node, then route_after_quality
LlmQualityNode ==
    /\ pc = "llm_quality"
    /\ executed' = Append(executed, "llm_quality")
    /\ db' = update_progress(db, "llm_quality")
    /\ progress' = progress_update("llm_quality")
    /\ \/ \E n \in 0..MaxIssues : \E found \in [1..n -> QualityIssue] :
            /\ Len(state.quality_feedback) + n <= MaxIssues
            /\ state' = [state EXCEPT !.current_stage = "llm_quality",
                                      !.quality_feedback = @ \o found]
       \/ state' = [state EXCEPT !.current_stage = "llm_quality",
                                 !.status = "failed"]
    /\ cache' = Some(state')
    /\ agent_states' = Some(state')
    /\ pc' = Goto(route_after_quality(state'))
    /\ UNCHANGED <<run_kind, History, ws, batch, redis>>

\* _report_node, then the edge to END
ReportNode ==
    /\ pc = "report"
    /\ executed' = Append(executed, "report")
    /\ db' = update_progress(db, "report")
    /\ progress' = progress_update("report")
    /\ LET s == [(IF state.human_decision # "none"
                  THEN apply_human_decision(state) ELSE state)
                 EXCEPT !.current_stage = "report"]
       IN  \/ state' = complete_stage([s EXCEPT !.status = "completed"],
                                       "report")
           \/ state' = [s EXCEPT !.status = "failed"]
    /\ cache' = Some(state')
    /\ agent_states' = Some(state')
    /\ pc' = "ended"
    /\ UNCHANGED <<run_kind, History, ws, batch, redis>>

\* analyze_competitors_with_id, the branch taken on the final state
TailOutcome_ignoring_review(final_status, is_awaiting_human_review) ==
    IF final_status = "failed" THEN "failed" ELSE "completed"

TailOutcome(final_status, is_awaiting_human_review) ==
    IF final_status = "failed" THEN "failed"
    ELSE IF is_awaiting_human_review THEN "awaiting"
    ELSE "completed"

\* the stores: everything a handler can change besides the history variables
World == [db |-> db, cache |-> cache, agent_states |-> agent_states,
          state |-> state, pc |-> pc, run_kind |-> run_kind,
          executed |-> executed, progress |-> progress]

SetWorld(w) ==
    /\ db' = w.db
    /\ cache' = w.cache
    /\ agent_states' = w.agent_states
    /\ state' = w.state
    /\ pc' = w.pc
    /\ run_kind' = w.run_kind
    /\ executed' = w.executed
    /\ progress' = w.progress

\* _save_final_results(final) for an AgentState object
save_final_results(w, final) ==
    [w EXCEPT !.agent_states = Some(final),
              !.db = update_analysis(@, "completed", "completed"),
              !.cache = Some(final)]

\* what the caller of ainvoke does with the state the graph returned
AfterInvoke(w, final) ==
    IF w.run_kind = "with_state"
    THEN w    \* resume_workflow_with_state: the dict result is not saved
    ELSE IF w.run_kind = "checkpoint"
    THEN save_final_results(w, final)    \* resume_workflow
    ELSE LET is_awaiting ==
                 \/ final.awaiting_human_review
                 \/ (w.db # None /\ w.db[1].current_stage = "human_review")
             outcome == TailOutcome(final.status, is_awaiting)
         IN  IF outcome = "failed"
             THEN [w EXCEPT !.db = set_progress(
                                      update_analysis(@, "failed", "same"),
                                      100)]
             ELSE IF outcome = "awaiting" THEN w
             ELSE [save_final_results(w, final)
                   EXCEPT !.db = set_progress(@, 100)]

\* _execute_workflow found state_snapshot.next non-empty, and its caller's
\* handling of the returned state
HandleInterrupt ==
    /\ pc = "interrupted"
    /\ LET current_state ==
               [set_awaiting_human_review(state, TRUE)
                EXCEPT !.current_stage = "human_review",
                       !.status = "in_progress"]
           w1 == IF run_kind = "initial"
                 THEN [World EXCEPT
                         !.db = store_human_review_data(
                                    set_progress(
                                        update_analysis(@, "in_progress",
                                                        "human_review"),
                                        100),
                                    current_state)]
                 ELSE World
       IN  SetWorld([AfterInvoke(w1, current_state) EXCEPT !.pc = "paused"])
    /\ UNCHANGED <<History, ws, batch, redis>>

\* ainvoke returned with the graph at END
FinishAnalysis ==
    /\ pc = "ended"
    /\ SetWorld([AfterInvoke(World, state) EXCEPT !.pc = "done"])
    /\ UNCHANGED <<History, ws, batch, redis>>

\* coordinator.get_analysis_status: the status it reports
get_analysis_status ==
    IF cache # None THEN cache[1].status
    ELSE IF db # None THEN db[1].status
    ELSE "not_found"

\* the completed_stages get_analysis_status computes from the record
stages_from_record(r) ==
    IF r.status = "completed"
    THEN <<"search", "analysis", "llm_quality", "human_review", "report">>
    ELSE (IF r.progress >= 20 THEN <<"search">> ELSE <<>>)
         \o (IF r.progress >= 40 THEN <<"analysis">> ELSE <<>>)
         \o (IF r.progress >= 60 THEN <<"llm_quality">> ELSE <<>>)
         \o (IF r.progress >= 80 THEN <<"human_review">> ELSE <<>>)
         \o (IF r.progress >= 100 THEN <<"report">> ELSE <<>>)

\* coordinator.get_analysis_status: the completed_stages it reports
status_completed_stages ==
    IF cache # None THEN cache[1].completed_stages
    ELSE IF db # None THEN stages_from_record(db[1])
    ELSE <<>>

\* the agent_state:<id> key passes its TTL
CacheExpire ==
    /\ cache # None
    /\ cache' = None
    /\ UNCHANGED <<db, agent_states, state, pc, run_kind, executed, progress,
                   History, ws, batch, redis>>

\* coordinator.get_agent_state: the cache first, else a minimal state built
\* from the analyses record
get_agent_state(w) ==
    IF w.cache # None THEN w.cache
    ELSE IF w.db # None
    THEN Some([InitialAgentState EXCEPT !.status = w.db[1].status])
    ELSE None

\* ainvoke(None, config): the interrupted thread runs _human_review_node and
\* route_after_human_review.  A route key outside the path map raises and
\* the step's writes to the checkpoint are dropped.
ainvoke_resume(w, kind) ==
    IF w.pc # "paused" THEN [raised |-> FALSE, w |-> w]
    ELSE LET st1 == [set_awaiting_human_review(w.state, TRUE)
                     EXCEPT !.current_stage = "human_review"]
             n   == [w EXCEPT !.db = store_human_review_data(
                                         update_progress(@, "human_review"),
                                         st1),
                              !.progress = progress_update("human_review"),
                              !.cache = Some(st1),
                              !.agent_states = Some(st1),
                              !.executed = Append(@, "human_review")]
             key == route_after_human_review(st1)
         IN  IF key \notin DOMAIN human_review_path_map
             THEN [raised |-> TRUE, w |-> n]
             ELSE [raised |-> FALSE,
                   w |-> [n EXCEPT !.state = state_after_human_review_route(st1),
                                   !.pc = Goto(human_review_path_map[key]),
                                   !.run_kind = kind]]

\* resume_workflow_with_state's check that the state waits for review
can_resume_always(s) == TRUE

can_resume(s) ==
    s.awaiting_human_review \/ s.current_stage = "human_review"

resume_workflow_with_state(w, s) ==
    IF ~can_resume(s) THEN [raised |-> TRUE, w |-> w]
    ELSE IF s.human_decision = "proceed"
    THEN LET s1 == set_awaiting_human_review(s, TRUE)
             done == [apply_human_decision(s1)
                      EXCEPT !.status = "completed",
                             !.current_stage = "completed"]
         IN  [raised |-> FALSE,
              w |-> [save_final_results(w, done)
                     EXCEPT !.db = set_progress(@, 100)]]
    ELSE ainvoke_resume(
             [w EXCEPT !.db = update_analysis(@, "in_progress", "finalizing")],
             "with_state")

\* resume_workflow: the decision is taken from the checkpoint or else from
\* the record's quality_review.review_decision, and put into the checkpoint
resume_workflow(w) ==
    LET in_db == /\ w.db # None
                 /\ w.db[1].quality_review
                 /\ w.db[1].review_decision # "none"
    IN  IF w.pc # "paused" THEN [raised |-> TRUE, w |-> w]
        ELSE IF w.state.human_decision = "none" /\ ~in_db
        THEN [raised |-> TRUE, w |-> w]
        ELSE ainvoke_resume(
                 [w EXCEPT
                    !.state = IF @.human_decision = "none"
                              THEN set_human_decision(@, w.db[1].review_decision)
                              ELSE @,
                    !.db = update_analysis(@, "in_progress", "resuming")],
                 "checkpoint")

\* submit_quality_decision persists the decision only into an existing
\* quality_review of the record
persist_decision(d, decision) ==
    IF d # None /\ d[1].quality_review
    THEN Some([d[1] EXCEPT !.review_decision = decision])
    ELSE d

\* the decision endpoint's test that the analysis awaits review
is_awaiting_review_always(s, d) == TRUE

is_awaiting_review(s, d) ==
    \/ s.awaiting_human_review
    \/ (d # None /\ d[1].current_stage = "human_review")

\* the modified_params of the posted HumanReviewDecision
posted_params(decision) ==
    IF decision = "modify_params" THEN Some([max_competitors |-> 1])
    ELSE None

\* POST /analysis/{request_id}/quality-review/decision
submit_quality_decision(w, decision) ==
    LET got == get_agent_state(w)
    IN  IF got = None THEN [code |-> 404, w |-> w]
        ELSE
        LET s0 == got[1]
            fallback == /\ ~s0.awaiting_human_review
                        /\ is_awaiting_review(s0, w.db)
            s1 == IF fallback THEN set_awaiting_human_review(s0, TRUE) ELSE s0
            w1 == IF fallback THEN [w EXCEPT !.cache = Some(s1)] ELSE w
        IN  IF ~is_awaiting_review(s0, w.db) THEN [code |-> 400, w |-> w1]
            ELSE IF decision \notin ValidDecisions THEN [code |-> 400, w |-> w1]
            ELSE
            LET s2 == [set_human_decision(s1, decision)
                       EXCEPT !.modified_params = posted_params(decision)]
                w2 == [w1 EXCEPT !.agent_states = Some(s2),
                                 !.cache = Some(s2),
                                 !.db = persist_decision(@, decision)]
            IN  IF decision = "abort"
                THEN LET s3 == [s2 EXCEPT !.status = "aborted"]
                     IN  [code |-> 200,
                          w |-> [w2 EXCEPT !.agent_states = Some(s3),
                                           !.cache = Some(s3)]]
                ELSE LET first == resume_workflow_with_state(w2, s2)
                     IN  IF ~first.raised THEN [code |-> 200, w |-> first.w]
                         ELSE [code |-> 200, w |-> resume_workflow(first.w).w]

SubmitDecision ==
    /\ n_submitted < MaxDecisions
    /\ \E decision \in PostedDecisions :
        LET r == submit_quality_decision(World, decision)
        IN  /\ SetWorld(r.w)
            /\ last' = [decision |-> decision, code |-> r.code,
                        mark |-> Len(executed)]
            /\ n_submitted' = n_submitted + 1
            /\ n_accepted' = IF r.code = 200 THEN n_accepted + 1 ELSE n_accepted
            /\ abort_accepted' = (abort_accepted
                                  \/ (r.code = 200 /\ decision = "abort"))
            /\ deleted' = deleted
            /\ ws' = ws
            /\ UNCHANGED <<batch, redis>>

\* DELETE /analysis/{request_id}: delete_agent_state drops the cached agent
\* state; nothing is removed from the analyses or agent_states collections
delete_analysis(w) ==
    IF w.db = None THEN [code |-> 404, w |-> w]
    ELSE IF w.db[1].status \in {"in_progress", "pending"}
    THEN [code |-> 400, w |-> w]
    ELSE [code |-> 200, w |-> [w EXCEPT !.cache = None]]

DeleteAnalysis ==
    LET r == delete_analysis(World)
    IN  /\ SetWorld(r.w)
        /\ deleted' = (deleted \/ r.code = 200)
        /\ UNCHANGED <<last, n_submitted, n_accepted, abort_accepted, ws,
                     batch, redis>>

Next ==
    \/ StartAnalysis
    \/ BeginWorkflow
    \/ SearchNode
    \/ AnalysisNode
    \/ LlmQualityNode
    \/ ReportNode
    \/ HandleInterrupt
    \/ FinishAnalysis
    \/ SubmitDecision
    \/ CacheExpire
    \/ DeleteAnalysis

Spec == Init /\ [][Next]_vars

\* ------------------------------------------------- the WebSocket monitor
Workflow == <<db, cache, agent_states, state, pc, run_kind, executed>>

\* websocket_analysis_updates: the client is accepted, gets the initial
\* status and its monitor task is created
WsConnect ==
    /\ ~ws.connected
    /\ ws' = [ws EXCEPT !.connected = TRUE, !.polling = TRUE,
                        !.last_progress = -1, !.last_stage = ""]
    /\ UNCHANGED <<Workflow, progress, History, batch, redis>>

\* one round of monitor_analysis_progress's loop
monitor_round(m, progress_data) ==
    IF progress_data = None THEN m
    ELSE LET d == progress_data[1]
             m1 == IF d.progress # m.last_progress
                      \/ d.current_stage # m.last_stage
                   THEN [m EXCEPT !.last_progress = d.progress,
                                  !.last_stage = d.current_stage]
                   ELSE m
         IN  IF d.status \in {"completed", "failed"}
             THEN [m1 EXCEPT !.got_complete = TRUE, !.polling = FALSE]
             ELSE m1

MonitorPoll ==
    /\ ws.polling
    /\ ws' = monitor_round(ws, progress)
    /\ UNCHANGED <<Workflow, progress, History, batch, redis>>

\* the progress:<id> key passes its TTL of 300 s; a running monitor reads
\* the key every 2 s, so it has read a value before that value expires
ProgressExpire ==
    /\ progress # None
    /\ ws.polling => /\ ws.last_progress = progress[1].progress
                     /\ ws.last_stage = progress[1].current_stage
    /\ progress' = None
    /\ UNCHANGED <<Workflow, History, ws, batch, redis>>

\* the workflow run of Spec with a WebSocket client; the requests of Spec
\* that write nothing under progress:<id> are left out
NextWs ==
    \/ StartAnalysis
    \/ BeginWorkflow
    \/ SearchNode
    \/ AnalysisNode
    \/ LlmQualityNode
    \/ ReportNode
    \/ HandleInterrupt
    \/ FinishAnalysis
    \/ WsConnect
    \/ MonitorPoll
    \/ ProgressExpire

\* the background task runs to its end or to the interrupt, and the
\* monitor task keeps polling
FairnessWs ==
    /\ WF_vars(BeginWorkflow)
    /\ WF_vars(SearchNode)
    /\ WF_vars(AnalysisNode)
    /\ WF_vars(LlmQualityNode)
    /\ WF_vars(ReportNode)
    /\ WF_vars(HandleInterrupt)
    /\ WF_vars(FinishAnalysis)
    /\ WF_vars(MonitorPoll)

SpecWs == Init /\ [][NextWs]_vars /\ FairnessWs

\* --------------------------------------------- batched collection loops
\* DataCollectionAgent.max_concurrent_requests
max_concurrent_requests == 3
\* DataProcessingAgent.max_concurrent_processing
max_concurrent_processing == 2
\* seconds DataCollectionAgent sleeps between two batches
collection_sleep == 2
\* seconds DataProcessingAgent sleeps between two batches
processing_sleep == 1

batch_size(kind) ==
    IF kind = "collection" THEN max_concurrent_requests
    ELSE max_concurrent_processing

batch_sleep(kind) ==
    IF kind = "collection" THEN collection_sleep ELSE processing_sleep

\* every item from the loop index on
batch_slice_rest(i, total, size) == {t \in 1..total : i < t}

\* competitors[i:i + size], items numbered from 1
batch_slice(i, total, size) == {t \in 1..total : i < t /\ t <= i + size}

\* _collect_competitor_data_batch or _process_competitors_batch is called
\* with a list of total items
BatchCall ==
    /\ batch.pc = "idle"
    /\ \E kind \in {"collection", "processing"}, total \in 0..MaxBatchItems :
         batch' = [InitialBatch EXCEPT !.kind = kind, !.total = total,
                                       !.pc = "loop"]
    /\ UNCHANGED <<Workflow, progress, History, ws, redis>>

\* the head of the for loop: the tasks of the next batch are handed to
\* asyncio.gather, or the loop is over and the function returns
BatchLoop ==
    /\ batch.pc = "loop"
    /\ batch' =
         IF batch.i < batch.total
         THEN [batch EXCEPT
                 !.in_flight = batch_slice(batch.i, batch.total,
                                           batch_size(batch.kind)),
                 !.pc = "gather"]
         ELSE [batch EXCEPT !.pc = "returned"]
    /\ UNCHANGED <<Workflow, progress, History, ws, redis>>

\* one task of the batch ends, with a result or with an exception
TaskDone ==
    /\ batch.pc = "gather"
    /\ \E t \in batch.in_flight, ok \in BOOLEAN :
         batch' = [batch EXCEPT
                     !.in_flight = @ \ {t},
                     !.finished = @ \cup {t},
                     !.failed = IF ok THEN @ ELSE @ \cup {t}]
    /\ UNCHANGED <<Workflow, progress, History, ws, redis>>

\* gather(..., return_exceptions=True) returns once every task has ended;
\* the results are stored, and the loop sleeps if another batch follows
GatherReturn ==
    /\ batch.pc = "gather"
    /\ batch.in_flight = {}
    /\ batch' =
         IF batch.i + batch_size(batch.kind) < batch.total
         THEN [batch EXCEPT !.pc = "sleep", !.slept = 0]
         ELSE [batch EXCEPT !.pc = "loop",
                            !.i = @ + batch_size(batch.kind)]
    /\ UNCHANGED <<Workflow, progress, History, ws, redis>>

\* a second of asyncio.sleep passes
SleepSecond ==
    /\ batch.pc = "sleep"
    /\ batch.slept < batch_sleep(batch.kind)
    /\ batch' = [batch EXCEPT !.slept = @ + 1]
    /\ UNCHANGED <<Workflow, progress, History, ws, redis>>

\* asyncio.sleep returns and the for loop steps to the next index
SleepReturn ==
    /\ batch.pc = "sleep"
    /\ batch.slept = batch_sleep(batch.kind)
    /\ batch' = [batch EXCEPT !.pc = "loop",
                              !.i = @ + batch_size(batch.kind)]
    /\ UNCHANGED <<Workflow, progress, History, ws, redis>>

NextBatch ==
    \/ BatchCall
    \/ BatchLoop
    \/ TaskDone
    \/ GatherReturn
    \/ SleepSecond
    \/ SleepReturn

SpecBatch == Init /\ [][NextBatch]_vars

\* ------------------------------------------------------- the Redis cache
\* the value of DATA_CACHE_TTL_SECONDS when the variable is not set
default_ttl == 3600
\* TTL cache_agent_state uses when it is given none
agent_state_ttl == 86400
\* TTL of progress:<id> and of progress_message:<id>
progress_ttl == 300
\* TTL of progress_update:<id>
progress_update_ttl == 3600
\* TTL of analysis_result:<id>
analysis_result_ttl == 86400
\* TTL of human_review:<id>
human_review_ttl == 7200

\* values of DATA_CACHE_TTL_SECONDS: not set, or set to 0
DataCacheTtlSeconds == {default_ttl, 0}

\* Python's `ttl or default`: None and 0 both give the default
ttl_or(ttl, default) ==
    IF ttl = None THEN default
    ELSE IF ttl[1] = 0 THEN default ELSE ttl[1]

\* a plain SET: the key is stored without an expiry
setex_without_expiry(r, key, ttl) ==
    [ok |-> TRUE,
     r |-> [r EXCEPT !.entries[key] =
                        Some([written_at |-> r.now, ttl |-> None])]]

\* client.setex(key, ttl, value): Redis refuses an expiry that is not
\* positive, else stores the value to expire ttl seconds from now
setex(r, key, ttl) ==
    IF ttl <= 0 THEN [ok |-> FALSE, r |-> r]
    ELSE [ok |-> TRUE,
          r |-> [r EXCEPT !.entries[key] =
                             Some([written_at |-> r.now, ttl |-> Some(ttl)])]]

\* RedisService.set: the error of setex is caught and False is returned
redis_set(r, key, ttl) == setex(r, key, ttl_or(ttl, r.default_ttl)).r

\* an entry is live until its expiry time
live(r, key) ==
    /\ r.entries[key] # None
    /\ LET e == r.entries[key][1]
       IN  e.ttl = None \/ r.now < e.written_at + e.ttl[1]

\* RedisService.get: the stored value, or None
redis_get(r, key) == IF live(r, key) THEN r.entries[key] ELSE None

\* RedisService.delete
redis_delete(r, key) == [r EXCEPT !.entries[key] = None]

cache_agent_state(r, ttl) ==
    redis_set(r, "agent_state", Some(ttl_or(ttl, agent_state_ttl)))

redis_set_analysis_progress(r) == redis_set(r, "progress", Some(progress_ttl))

store_progress_update(r) ==
    redis_set(r, "progress_update", Some(progress_update_ttl))

store_analysis_result(r) ==
    redis_set(r, "analysis_result", Some(analysis_result_ttl))

redis_store_human_review_data(r) ==
    redis_set(r, "human_review", Some(human_review_ttl))

set_progress_message(r) ==
    redis_set(r, "progress_message", Some(progress_ttl))

cache_competitor_data(r, ttl) == redis_set(r, "competitor", ttl)

\* RedisService.__init__ reads DATA_CACHE_TTL_SECONDS
RedisServiceInit ==
    /\ ~redis.up
    /\ \E d \in DataCacheTtlSeconds :
         redis' = [redis EXCEPT !.up = TRUE, !.default_ttl = d]
    /\ UNCHANGED <<Workflow, progress, History, ws, batch>>

\* one call of a writer of RedisService, with the TTL its callers give
RedisWrite ==
    /\ redis.up
    /\ redis.writes < MaxWrites
    /\ \E r \in {cache_agent_state(redis, None),
                 redis_set_analysis_progress(redis),
                 store_progress_update(redis),
                 store_analysis_result(redis),
                 redis_store_human_review_data(redis),
                 set_progress_message(redis),
                 cache_competitor_data(redis, None)} :
         redis' = [r EXCEPT !.writes = redis.writes + 1]
    /\ UNCHANGED <<Workflow, progress, History, ws, batch>>

\* delete_agent_state, clear_human_review_data
RedisDelete ==
    /\ redis.up
    /\ \E k \in {"agent_state", "human_review"} :
         /\ redis.entries[k] # None
         /\ redis' = redis_delete(redis, k)
    /\ UNCHANGED <<Workflow, progress, History, ws, batch>>

\* the lengths of time after a write at which some TTL of the service
\* runs out, and the second before each
TtlMarks ==
    LET T == {default_ttl, agent_state_ttl, progress_ttl, progress_update_ttl,
              analysis_result_ttl, human_review_ttl}
    IN  T \cup {t - 1 : t \in T}

\* time passes up to such a moment after the write of some stored entry;
\* Redis drops the entries whose expiry time has come
TimePasses ==
    /\ redis.up
    /\ \E k \in RedisKeys, m \in TtlMarks :
         /\ redis.entries[k] # None
         /\ redis.entries[k][1].written_at + m > redis.now
         /\ LET r == [redis EXCEPT
                        !.now = redis.entries[k][1].written_at + m]
            IN  redis' = [r EXCEPT !.entries =
                            [j \in RedisKeys |-> redis_get(r, j)]]
    /\ UNCHANGED <<Workflow, progress, History, ws, batch>>

NextCache ==
    \/ RedisServiceInit
    \/ RedisWrite
    \/ RedisDelete
    \/ TimePasses

SpecCache == Init /\ [][NextCache]_vars
\* ------------------------------------------------------------------ claims
Completed == db # None /\ db[1].status = "completed"

\* the stages executed after position `mark` of the history, the
\* human_review node left out
StagesAfter(mark) ==
    SelectSeq(SubSeq(executed, mark + 1, Len(executed)),
              LAMBDA n : n # "human_review")

Occurs(seq, x) == \E i \in 1..Len(seq) : seq[i] = x

\* C1: search is the first stage executed, and whenever report executes,
\* search, analysis and llm_quality have executed before it in that order.
C1_StageOrder ==
    /\ executed # <<>> => executed[1] = "search"
    /\ \A i \in 1..Len(executed) :
         executed[i] = "report" =>
           \E a, b, c \in 1..(i - 1) :
              /\ a < b /\ b < c
              /\ executed[a] = "search"
              /\ executed[b] = "analysis"
              /\ executed[c] = "llm_quality"

C1_Witness == pc = "done" /\ Occurs(executed, "report")

ReviewWorthy(i) ==
    \/ i.severity = "critical"
    \/ i.severity = "high"
    \/ /\ i.severity = "medium"
       /\ \/ i.issue_type = "overall_quality_low"
          \/ i.issue_type = "recommendations_quality"
          \/ i.issue_type = "analysis_depth"

\* C2: when llm_quality finishes with a status other than failed, the next
\* stage is human_review exactly when quality_feedback holds a critical or
\* high issue or a medium issue of type overall_quality_low,
\* recommendations_quality or analysis_depth; otherwise it is report.
C2_QualityRouting ==
    [][(executed' = Append(executed, "llm_quality") /\ state'.status # "failed")
        => LET fb == state'.quality_feedback
               worthy == \E k \in 1..Len(fb) : ReviewWorthy(fb[k])
           IN  /\ worthy => pc' = "interrupted"
               /\ ~worthy => pc' = "report"]_vars

C2_Witness ==
    /\ pc = "interrupted"
    /\ Len(state.quality_feedback) > 0
    /\ \A k \in 1..Len(state.quality_feedback) :
         state.quality_feedback[k].severity = "medium"

\* C3: while the workflow is interrupted before human_review and no decision
\* has been accepted, the record is in_progress (not completed) and report
\* has not run; once the interrupt has been handled the record's
\* current_stage is human_review.
C3_PausedNotCompleted ==
    (pc \in {"interrupted", "paused"} /\ n_accepted = 0)
      => /\ db # None
         /\ db[1].status = "in_progress"
         /\ pc = "paused" => db[1].current_stage = "human_review"
         /\ ~Occurs(executed, "report")

C3_Witness == pc = "paused" /\ n_accepted = 0 /\ n_submitted > 0

\* C4 (as claimed): once a retry_search decision has been accepted the next
\* stage executed is search, once a retry_analysis decision has been
\* accepted it is analysis, and llm_quality runs again before any report.
C4_RetryReexecutes ==
    (last.code = 200 /\ last.decision \in {"retry_search", "retry_analysis"})
      => LET after == StagesAfter(last.mark)
             target == IF last.decision = "retry_search"
                       THEN "search" ELSE "analysis"
         IN  /\ IF after = <<>> THEN pc = target ELSE after[1] = target
             /\ \A i \in 1..Len(after) :
                  after[i] = "report"
                    => \E j \in 1..(i - 1) : after[j] = "llm_quality"

\* C5 (as claimed): once a proceed decision has been accepted the workflow
\* goes on to report, and report runs before the record is completed.
C5_ProceedRunsReport ==
    (last.code = 200 /\ last.decision = "proceed")
      => LET after == StagesAfter(last.mark)
         IN  /\ pc = "report" \/ Occurs(after, "report")
             /\ Completed => Occurs(after, "report")

\* C6: once an abort decision has been accepted no stage executes any more
\* and the record never reaches status completed, whatever is posted later.
C6_AbortStops ==
    /\ [](abort_accepted => ~Completed)
    /\ [][abort_accepted => executed' = executed]_vars

C6_Witness ==
    /\ abort_accepted
    /\ n_accepted >= 2
    /\ last.code = 200
    /\ last.decision = "proceed"

\* C7: a decision posted while no agent state exists gets 404; one posted
\* while the awaiting flag is false and the record's current_stage is not
\* human_review gets 400, records no decision and resumes nothing.
C7_RejectedWhenNotAwaiting ==
    [][(n_submitted' = n_submitted + 1)
        => /\ (cache = None /\ db = None) => last'.code = 404
           /\ (/\ cache # None \/ db # None
               /\ ~(cache # None /\ cache[1].awaiting_human_review)
               /\ ~(db # None /\ db[1].current_stage = "human_review"))
                => /\ last'.code = 400
                   /\ UNCHANGED <<db, cache, agent_states, state, pc,
                                  run_kind, executed, n_accepted>>]_vars

C7_Witness ==
    /\ last.code = 400
    /\ last.decision \in ValidDecisions
    /\ cache # None
    /\ cache[1].human_decision = "none"

\* C9: after a stage has returned with status failed no further stage
\* executes, so no report is generated.
C9_FailedEndsWorkflow ==
    [][state.status = "failed" => executed' = executed]_vars

C9_Witness ==
    /\ state.status = "failed"
    /\ pc = "done"
    /\ executed = <<"search">>

\* C10 (as claimed): after an abort decision has been accepted neither the
\* status endpoint nor the analyses record reports in_progress.
C10_AbortedNotInProgress ==
    abort_accepted
      => /\ get_analysis_status # "in_progress"
         /\ db # None /\ db[1].status # "in_progress"

\* C11 (as claimed): once a modify_params decision has been accepted the
\* posted parameters are in the workflow's analysis context and the next
\* stage executed is search or analysis, before any report.
C11_ModifyParamsRetries ==
    (last.code = 200 /\ last.decision = "modify_params")
      => LET after == StagesAfter(last.mark)
         IN  /\ state.max_competitors =
                    posted_params("modify_params")[1].max_competitors
             /\ IF after = <<>> THEN pc \in {"search", "analysis"}
                ELSE after[1] \in {"search", "analysis"}

WithinMax(s) == Len(s.discovered_competitors) <= s.max_competitors

C13_CompletedStagesAllFive ==
    Completed
      => \A stage \in {"search", "analysis", "llm_quality",
                        "human_review", "report"} :
            Occurs(status_completed_stages, stage)

\* C15 (as claimed): once delete_analysis has succeeded the analysis is in
\* neither the database nor the cache, and the status lookup and the result
\* lookup (which reads the analyses record) report it as not found.
C15_DeletedNotFound ==
    deleted
      => /\ db = None
         /\ cache = None
         /\ get_analysis_status = "not_found"

\* C14 (as claimed): a client connected to an analysis that has reached
\* completed or failed eventually receives analysis_complete, and once it
\* has, its monitor loop polls no more.
C14_CompleteDelivered ==
    /\ (ws.connected /\ db # None /\ db[1].status \in {"completed", "failed"})
         ~> ws.got_complete
    /\ [](ws.got_complete => ~ws.polling)

\* C16: in a batched collection run at most max_concurrent_requests (3)
\* tasks are in flight at any time, and a batch after the first starts
\* only when every task of the batches before it has ended and the
\* inter-batch sleep has run its full length.
C16_BoundedBatches ==
    /\ [](Cardinality(batch.in_flight) <= max_concurrent_requests)
    /\ [][(batch.in_flight = {} /\ batch'.in_flight # {} /\ batch.i > 0)
            => /\ 1..batch.i \subseteq batch.finished
               /\ batch.slept = batch_sleep(batch.kind)
               /\ batch.slept > 0]_vars

\* the second batch of a collection run is in flight with three tasks,
\* after a task of the first batch ended with an exception
C16_Witness ==
    /\ batch.kind = "collection"
    /\ batch.i >= max_concurrent_requests
    /\ Cardinality(batch.in_flight) = max_concurrent_requests
    /\ batch.failed # {}

\* the TTL the entry under a key is expected to carry: 300 s for
\* progress, 7200 s for human-review data, 86400 s for agent state, and
\* for the other keys the TTL the entry was written with
ExpectedTtl(k) ==
    CASE k = "progress" -> 300
      [] k = "human_review" -> 7200
      [] k = "agent_state" -> 86400
      [] OTHER -> redis.entries[k][1].ttl[1]

\* C17: every stored cache entry carries a finite positive TTL, and a
\* read returns an entry only while less than its TTL has passed since
\* it was written: 300 s for progress, 7200 s for human-review data,
\* 86400 s for agent state.
C17_EntriesExpire ==
    \A k \in RedisKeys :
        redis.entries[k] # None
        => /\ redis.entries[k][1].ttl # None
           /\ redis.entries[k][1].ttl[1] > 0
           /\ redis_get(redis, k) # None
                => redis.now - redis.entries[k][1].written_at < ExpectedTtl(k)

\* a progress entry written at time 0 is gone at 300 s while the
\* human-review data written with it is still returned
C17_Witness ==
    /\ redis.writes = 2
    /\ redis.now = 300
    /\ redis_get(redis, "progress") = None
    /\ redis_get(redis, "human_review") # None

====
